---- MODULE Spec2Model ----
(***************************************************************************)
(* Marker-generation services of ar-engine.                                *)
(*                                                                         *)
(* The repository holds four near-duplicate Express servers, each with one *)
(* POST /api/generate-marker handler:                                      *)
(*   "mind"   src/app.js 397-536           memory upload, .jpg + .mind     *)
(*   "raw"    src/unnamed/part_000 1-160   memory upload, .patt + .jpg     *)
(*   "disk"   src/unnamed/part_000 161-369 disk upload,   .png + .patt     *)
(*   "border" src/unnamed/part_001 1-217   memory upload, .png + .patt     *)
(* A behaviour is one deployment (variant) serving NumReq requests whose   *)
(* steps interleave at the handler's await points.                         *)
(***************************************************************************)
EXTENDS Integers, Sequences, FiniteSets, TLC

VARIABLES variant, moduleMissing, clock, fsFault,
          pc, upload, filename, work, responses, wrote, files, log,
          compileFail, failedAt

vars == <<variant, moduleMissing, clock, fsFault,
          pc, upload, filename, work, responses, wrote, files, log,
          compileFail, failedAt>>

(***************************************************************************)
(* Bounds of the model.                                                    *)
(***************************************************************************)
NumReq == 2
MaxClock == 1
RandRes == 2
FilterTaps == 2

Reqs == 1..NumReq

(***************************************************************************)
(* Program constants.                                                      *)
(***************************************************************************)
GridSize == 16
NumChannels == 3
FieldWidth == 3
FileSizeLimit == 10485760
ImageSize == 412

Variants == {"mind", "raw", "disk", "border"}

WorkingSize(v) == IF v = "mind" THEN 480 ELSE 512

FitMode(v) == IF v = "raw" THEN "cover" ELSE "inside"

WithoutEnlargement(v) == v = "mind"

\* multer's fileFilter option is set in every variant but "mind"
HasFileFilter(v) == v # "mind"

\* the trailing app.use((error, req, res, next) => ...) middleware
HasErrorMiddleware(v) == v # "mind"

(***************************************************************************)
(* Arithmetic helpers (JavaScript Math.* on non-negative rationals n/d).   *)
(***************************************************************************)
Min(a, b) == IF a < b THEN a ELSE b

Max(a, b) == IF a > b THEN a ELSE b

\* Math.round(n / d), n >= 0, d > 0
RoundDiv(n, d) == n \div d + (IF 2 * (n % d) >= d THEN 1 ELSE 0)

(***************************************************************************)
(* Uploads.  An upload is what multer sees of the multipart body: whether  *)
(* the 'image' part is present, its size, extension and declared MIME      *)
(* type, and what sharp finds when it decodes the bytes: undecodable, or a *)
(* raster of w x h pixels whose content is identified by seed and for      *)
(* which sharp reports info.channels = channels (1 grey, 2 grey + alpha,   *)
(* 3 RGB, 4 RGB + alpha).                                                  *)
(***************************************************************************)
NoUpload ==
    [present |-> FALSE, size |-> 0, ext |-> "", mime |-> "",
     decodable |-> FALSE, w |-> 0, h |-> 0, seed |-> 0, channels |-> 0]

Image(w, h, seed, channels, ext, mime) ==
    [present |-> TRUE, size |-> channels * w * h, ext |-> ext, mime |-> mime,
     decodable |-> TRUE, w |-> w, h |-> h, seed |-> seed, channels |-> channels]

Uploads ==
    << NoUpload,
       [Image(4000, 3000, 1, 3, ".jpg", "image/jpeg") EXCEPT !.size = FileSizeLimit + 1],
       [present |-> TRUE, size |-> 2048, ext |-> ".txt", mime |-> "text/plain",
        decodable |-> FALSE, w |-> 0, h |-> 0, seed |-> 0, channels |-> 0],
       [present |-> TRUE, size |-> 2048, ext |-> ".jpg", mime |-> "image/jpeg",
        decodable |-> FALSE, w |-> 0, h |-> 0, seed |-> 0, channels |-> 0],
       Image(1000, 800, 1, 3, ".jpg", "image/jpeg"),
       Image(300, 300, 2, 4, ".png", "image/png"),
       Image(100, 50, 3, 1, ".jpeg", "image/jpeg"),
       Image(600, 2000, 4, 2, ".png", "image/png"),
       Image(1024, 1024, 5, 3, ".png", "image/png") >>

UploadIds == 1..Len(Uploads)

\* /jpeg|jpg|png/.test(s) over the strings of the model
AllowedTypes(s) == s \in {".jpg", ".jpeg", ".png", "image/jpeg", "image/png"}

fileFilter(u) == AllowedTypes(u.mime) /\ AllowedTypes(u.ext)

(***************************************************************************)
(* Rasters (sharp's pixel buffers).  A raster is [w, h, seed, steps]: the  *)
(* w x h pixels got from the decoded upload with content seed by the       *)
(* resize steps, oldest first.  A step [ox, oy, sw, sh, pw, ph, kernel]    *)
(* scales its pw x ph parent to sw x sh and keeps the w x h window at      *)
(* (ox, oy).  JPEG/PNG re-encoding is taken as lossless.                   *)
(***************************************************************************)
NoRaster == [w |-> 0, h |-> 0, seed |-> 0, steps |-> << >>]

\* byte of channel c at (x, y) of the decoded upload with content seed
SourcePixel(seed, x, y, c) ==
    (seed * 37 + x * 7 + y * 13 + (x * y) * 3 + c * 101) % 256

Decode(u) == [w |-> u.w, h |-> u.h, seed |-> u.seed, steps |-> << >>]

RECURSIVE SumTaps(_, _, _, _, _, _, _)
RECURSIVE PixelAt(_, _, _, _, _, _)

\* sharp.kernel.nearest reads one parent pixel; the default kernel (lanczos3)
\* weighs the parent pixels under the footprint of the output pixel, modelled
\* as the rounded mean of FilterTaps of them, evenly spaced on its diagonal.
PixelAt(seed, steps, n, x, y, c) ==
    IF n = 0 THEN SourcePixel(seed, x, y, c)
    ELSE LET s == steps[n]
         IN IF s.kernel = "nearest"
            THEN PixelAt(seed, steps, n - 1,
                         ((x + s.ox) * s.pw) \div s.sw,
                         ((y + s.oy) * s.ph) \div s.sh, c)
            ELSE RoundDiv(SumTaps(seed, steps, n, x, y, c, FilterTaps), FilterTaps)

SumTaps(seed, steps, n, x, y, c, k) ==
    IF k = 0 THEN 0
    ELSE LET s == steps[n]
         IN PixelAt(seed, steps, n - 1,
                    (((x + s.ox) * FilterTaps + (k - 1)) * s.pw) \div (s.sw * FilterTaps),
                    (((y + s.oy) * FilterTaps + (k - 1)) * s.ph) \div (s.sh * FilterTaps), c)
            + SumTaps(seed, steps, n, x, y, c, k - 1)

Pixel(img, x, y, c) == PixelAt(img.seed, img.steps, Len(img.steps), x, y, c)

\* fit 'inside' resolved as 'outside': the shorter side gets the target size
ResizedDimsOutside(w, h, W, H, fit, withoutEnlargement) ==
    LET wider == w * H > h * W
    IN IF fit = "fill" THEN <<W, H>>
       ELSE IF wider THEN <<Max(1, RoundDiv(w * H, h)), H>>
                     ELSE <<W, Max(1, RoundDiv(h * W, w))>>

\* the output size sharp resolves for .resize(W, H, {fit, withoutEnlargement})
ResizedDims(w, h, W, H, fit, withoutEnlargement) ==
    LET wider == w * H > h * W          \* xfactor > yfactor
    IN CASE fit = "fill" -> <<W, H>>
         [] fit = "cover" ->
              IF wider THEN <<Max(1, RoundDiv(w * H, h)), H>>
                       ELSE <<W, Max(1, RoundDiv(h * W, w))>>
         [] fit = "inside" ->
              IF withoutEnlargement /\ w <= W /\ h <= H THEN <<w, h>>
              ELSE IF wider THEN <<W, Max(1, RoundDiv(h * W, w))>>
                            ELSE <<Max(1, RoundDiv(w * H, h)), H>>

\* sharp(img).resize(W, H, {fit, kernel, withoutEnlargement}): scale, then for
\* "cover" crop the centred W x H window
Resize(img, W, H, fit, kernel, withoutEnlargement) ==
    LET d == ResizedDims(img.w, img.h, W, H, fit, withoutEnlargement)
        ow == IF fit = "cover" THEN W ELSE d[1]
        oh == IF fit = "cover" THEN H ELSE d[2]
        step == [ox |-> (d[1] - ow) \div 2, oy |-> (d[2] - oh) \div 2,
                 sw |-> d[1], sh |-> d[2], pw |-> img.w, ph |-> img.h,
                 kernel |-> kernel]
    IN [w |-> ow, h |-> oh, seed |-> img.seed, steps |-> Append(img.steps, step)]

(***************************************************************************)
(* .raw().toBuffer({ resolveWithObject: true }): data holds the pixels row *)
(* by row, info.channels bytes per pixel: R, G, B with 3 channels, the     *)
(* grey level with 1.  data[i] is data[i + 1] here.                        *)
(***************************************************************************)
Grey(img, x, y) == (Pixel(img, x, y, 0) + Pixel(img, x, y, 1) + Pixel(img, x, y, 2)) \div 3

RawBand(img, x, y, b, channels) ==
    IF channels >= 3 THEN Pixel(img, x, y, b) ELSE Grey(img, x, y)

RawData(img, channels) ==
    [i \in 1..(img.w * img.h * channels) |->
        LET p == (i - 1) \div channels
        IN RawBand(img, p % img.w, p \div img.w, (i - 1) % channels, channels)]

(***************************************************************************)
(* JavaScript values of the pattern loops.                                 *)
(***************************************************************************)
Undefined == -1

\* data[i] of a Buffer: undefined past the end
BufferGet(data, i) == IF i < Len(data) THEN data[i + 1] ELSE Undefined

Digits == <<"0", "1", "2", "3", "4", "5", "6", "7", "8", "9">>

RECURSIVE toString(_)
\* Number.prototype.toString of a non-negative integer
toString(n) ==
    IF n < 10 THEN <<Digits[n + 1]>>
    ELSE Append(toString(n \div 10), Digits[(n % 10) + 1])

RECURSIVE padStart(_, _, _)
\* String.prototype.padStart(width, fill)
padStart(s, width, fill) ==
    IF Len(s) >= width THEN s ELSE padStart(<<fill>> \o s, width, fill)

RECURSIVE join(_, _)
\* Array.prototype.join(sep)
join(row, sep) ==
    IF Len(row) = 0 THEN << >>
    ELSE IF Len(row) = 1 THEN row[1]
    ELSE row[1] \o <<sep>> \o join(Tail(row), sep)

(***************************************************************************)
(* The pattern loops of generateRealPattFile and generatePattFile.         *)
(***************************************************************************)
\* some data[pixelIndex + channel] of the loops is undefined, so that
\* value.toString() throws a TypeError
patternThrows(data, channels) ==
    \E channel \in 0..(NumChannels - 1), y \in 0..(GridSize - 1), x \in 0..(GridSize - 1) :
        BufferGet(data, (y * GridSize + x) * channels + channel) = Undefined

patternField(data, channels, channel, y, x) ==
    LET pixelIndex == (y * GridSize + x) * channels
        value == BufferGet(data, pixelIndex + channel)
    IN padStart(toString(value), FieldWidth, " ")

patternRow(data, channels, channel, y) ==
    join([k \in 1..GridSize |-> patternField(data, channels, channel, y, k - 1)], " ")
        \o <<"\n">>

RECURSIVE patternRows(_, _, _, _)
patternRows(data, channels, channel, y) ==
    IF y = GridSize THEN << >>
    ELSE patternRow(data, channels, channel, y) \o patternRows(data, channels, channel, y + 1)

RECURSIVE patternBlocks(_, _, _)
patternBlocks(data, channels, channel) ==
    IF channel = NumChannels THEN << >>
    ELSE patternRows(data, channels, channel, 0)
            \o (IF channel < NumChannels - 1 THEN <<"\n">> ELSE << >>)
            \o patternBlocks(data, channels, channel + 1)

\* the loops with `if (channel < 3)`: a blank line after the last block too
patternTrailingBlank(data, channels) == patternBlocks(data, channels, 0) \o <<"\n">>

\* the pattern string built from { data, info }
pattern(data, channels) == patternBlocks(data, channels, 0)

(***************************************************************************)
(* Math.random().  A call returns n / RandRes for some n in 0..RandRes-1;  *)
(* the k-th call after the generator was in state n returns RandomAt(n, k).*)
(***************************************************************************)
RandomValues == 0..(RandRes - 1)

RandomAt(n, k) == (n + k * (n + 1)) % RandRes

\* Date.now() + '-' + Math.round(Math.random() * 1E9), as <<ms, suffix>>
uniqueName(now, n) == <<now, RoundDiv(n * 1000000000, RandRes)>>

\* Math.floor(Math.random() * 256) of the k-th call
randomByte(n, k) == (RandomAt(n, k) * 256) \div RandRes

simpleField(n, i, y, x) ==
    LET value == randomByte(n, (i * GridSize + y) * GridSize + x)
    IN padStart(toString(value), FieldWidth, " ")

simpleRow(n, i, y) ==
    join([k \in 1..GridSize |-> simpleField(n, i, y, k - 1)], " ") \o <<"\n">>

RECURSIVE simpleRows(_, _, _)
simpleRows(n, i, y) ==
    IF y = GridSize THEN << >>
    ELSE simpleRow(n, i, y) \o simpleRows(n, i, y + 1)

RECURSIVE simpleBlocks(_, _)
simpleBlocks(n, i) ==
    IF i = NumChannels THEN << >>
    ELSE simpleRows(n, i, 0)
            \o (IF i < NumChannels - 1 THEN <<"\n">> ELSE << >>)
            \o simpleBlocks(n, i + 1)

\* generateSimplePattern() when the generator is in state n
generateSimplePattern(n) == simpleBlocks(n, 0)

(***************************************************************************)
(* Files.  A path is <<directory, stem, extension>>, the stem being the    *)
(* request's filename; a content is [kind, text, img].                     *)
(***************************************************************************)
NoText == << >>

Placeholder == <<"M", "I", "N", "D", "A", "R", "_", "C", "O", "M", "P", "I", "L", "E", "D">>

PattFile(text) == [kind |-> "patt", text |-> text, img |-> NoRaster]

JpegFile(img) == [kind |-> "jpeg", text |-> NoText, img |-> img]

PngFile(img) == [kind |-> "png", text |-> NoText, img |-> img]

MindFile(img) == [kind |-> "mind", text |-> NoText, img |-> img]

DummyFile == [kind |-> "dummy", text |-> Placeholder, img |-> NoRaster]

UploadFile(u) == [kind |-> "upload", text |-> NoText, img |-> Decode(u)]

NoName == << >>

markerPath(v, name) ==
    <<IF v = "disk" THEN "./markers/" ELSE "./public/markers/", name, ".patt">>

targetPath(v, name) ==
    <<"./public/targets/", name, IF v \in {"mind", "raw"} THEN ".jpg" ELSE ".png">>

compiledPath(name) == <<"./public/targets/", name, ".mind">>

inputPath(name, ext) == <<"./uploads/", name, ext>>

optimizedPath(name) == <<"./uploads/", name, "-optimized.jpg">>

(***************************************************************************)
(* Responses.  res.status(s).json(...) sends [status, type "json"]; the    *)
(* default Express error handler sends an HTML page.                       *)
(***************************************************************************)
Json(status) == [status |-> status, type |-> "json"]

Html(status) == [status |-> status, type |-> "html"]

Send(r, resp) == responses' = [responses EXCEPT ![r] = Append(@, resp)]

Logged(r, what) == log' = [log EXCEPT ![r] = @ \cup {what}]

WriteFile(r, path, content) ==
    /\ wrote' = [wrote EXCEPT ![r] = Append(@, [path |-> path, kind |-> content.kind])]
    /\ files' = (path :> content) @@ files

\* the catch block of the handler: console.error, res.status(500).json;
\* more is what was logged on the way to it, at the step that threw
HandlerCatch(r, more, at) ==
    /\ failedAt' = [failedAt EXCEPT ![r] = at]
    /\ log' = [log EXCEPT ![r] = @ \cup more \cup {"handler"}]
    /\ Send(r, Json(500))
    /\ pc' = [pc EXCEPT ![r] = "done"]

\* res.json({ success: true, ... })
Success(r) ==
    /\ Send(r, Json(200))
    /\ pc' = [pc EXCEPT ![r] = "done"]

U(r) == Uploads[upload[r]]

(***************************************************************************)
(* The browser client (src/app.js 1-395): its globals, the DOM state it    *)
(* sets, the position of the startBtn click handler, and the callbacks     *)
(* its start attempts leave behind.                                        *)
(***************************************************************************)
VARIABLES selectedFile, compiledData, uploadHidden, loadingHidden, arDisplay,
          loadingProgress, alerted, cpc, attempt, startImg, resizedImg,
          compile, compileTimer, onLoaded, sceneTimer, starting,
          hasLoaded, mindarRunning, listeners, status, handled,
          libMissing, systemMissing

cvars == <<selectedFile, compiledData, uploadHidden, loadingHidden, arDisplay,
           loadingProgress, alerted, cpc, attempt, startImg, resizedImg,
           compile, compileTimer, onLoaded, sceneTimer, starting,
           hasLoaded, mindarRunning, listeners, status, handled,
           libMissing, systemMissing>>

\* start attempts of one page visit
MaxAttempts == 3

Attempts == 1..MaxAttempts

\* null
Null == 0

NoImage == [w |-> 0, h |-> 0]

\* the files a user can pick: type, whether the browser decodes it, its size
ClientFiles ==
    << [image |-> FALSE, loads |-> FALSE, w |-> 0,    h |-> 0],
       [image |-> TRUE,  loads |-> FALSE, w |-> 0,    h |-> 0],
       [image |-> TRUE,  loads |-> TRUE,  w |-> 200,  h |-> 400],
       [image |-> TRUE,  loads |-> TRUE,  w |-> 800,  h |-> 600],
       [image |-> TRUE,  loads |-> TRUE,  w |-> 4000, h |-> 3000],
       [image |-> TRUE,  loads |-> TRUE,  w |-> 1500, h |-> 2400] >>

ClientFileIds == 1..Len(ClientFiles)

\* the events setupEventListeners listens to
Events == {"targetFound", "targetLost", "arReady", "arError"}

\* the page after the script ran
ClientInit ==
    /\ selectedFile = Null
    /\ compiledData = Null
    /\ uploadHidden = FALSE
    /\ loadingHidden = TRUE
    /\ arDisplay = FALSE
    /\ loadingProgress = 0
    /\ alerted = "none"
    /\ cpc = "idle"
    /\ attempt = 0
    /\ startImg = NoImage
    /\ resizedImg = NoImage
    /\ compile = [a \in Attempts |-> "none"]
    /\ compileTimer = [a \in Attempts |-> FALSE]
    /\ onLoaded = [a \in Attempts |-> FALSE]
    /\ sceneTimer = [a \in Attempts |-> FALSE]
    /\ starting = [a \in Attempts |-> FALSE]
    /\ hasLoaded \in BOOLEAN
    /\ mindarRunning = FALSE
    /\ listeners = [e \in Events |-> 0]
    /\ status = "none"
    /\ handled = 0
    /\ libMissing \in BOOLEAN
    /\ systemMissing \in BOOLEAN

(***************************************************************************)
(* Initial state: a deployment of one variant, no request received.        *)
(***************************************************************************)
ServerInit ==
    /\ variant \in Variants
    /\ moduleMissing \in BOOLEAN
    /\ (moduleMissing => variant = "mind")
    /\ clock = 0
    /\ fsFault = FALSE
    /\ pc = [r \in Reqs |-> "idle"]
    /\ upload = [r \in Reqs |-> 1]
    /\ filename = [r \in Reqs |-> NoName]
    /\ work = [r \in Reqs |-> NoRaster]
    /\ responses = [r \in Reqs |-> << >>]
    /\ wrote = [r \in Reqs |-> << >>]
    /\ files = [p \in {} |-> DummyFile]
    /\ log = [r \in Reqs |-> {}]
    /\ compileFail = [r \in Reqs |-> "none"]
    /\ failedAt = [r \in Reqs |-> "none"]

\* the servers are checked with the page left as loaded
Init ==
    /\ ServerInit
    /\ ClientInit
    /\ ~hasLoaded /\ ~libMissing /\ ~systemMissing

(***************************************************************************)
(* Environment.                                                            *)
(***************************************************************************)
\* a millisecond passes: Date.now() grows
Tick ==
    /\ clock < MaxClock
    /\ clock' = clock + 1
    /\ UNCHANGED <<variant, moduleMissing, fsFault, pc, upload, filename, work,
                   responses, wrote, files, log, compileFail, failedAt>>
    /\ UNCHANGED cvars

\* the file system starts refusing writes and unlinks (disk full, read-only)
FsFail ==
    /\ ~fsFault
    /\ fsFault' = TRUE
    /\ UNCHANGED <<variant, moduleMissing, clock, pc, upload, filename, work,
                   responses, wrote, files, log, compileFail, failedAt>>
    /\ UNCHANGED cvars

(***************************************************************************)
(* upload.single('image'), then the synchronous head of the handler.       *)
(***************************************************************************)
\* multer calls next(error): the file filter refuses the part, the part is
\* larger than limits.fileSize, or (disk storage) the file cannot be stored.
\* The error middleware answers; "mind" has none and Express's default error
\* handler answers with an HTML page.
UploadRejected(r, u) ==
    /\ pc[r] = "idle"
    /\ Uploads[u].present
    /\ \/ HasFileFilter(variant) /\ ~fileFilter(Uploads[u])
       \/ Uploads[u].size > FileSizeLimit
       \/ variant = "disk" /\ fsFault
    /\ upload' = [upload EXCEPT ![r] = u]
    /\ failedAt' = [failedAt EXCEPT ![r] =
                      IF HasFileFilter(variant) /\ ~fileFilter(Uploads[u]) THEN "filter"
                      ELSE IF Uploads[u].size > FileSizeLimit THEN "limit"
                      ELSE "store"]
    /\ IF HasErrorMiddleware(variant)
       THEN Logged(r, "middleware") /\ Send(r, Json(500))
       ELSE Logged(r, "express") /\ Send(r, Html(500))
    /\ pc' = [pc EXCEPT ![r] = "done"]
    /\ UNCHANGED <<variant, moduleMissing, clock, fsFault, filename, work,
                   wrote, files, compileFail>>
    /\ UNCHANGED cvars

\* if (!req.file) return res.status(400).json(...)
NoFile(r, u) ==
    /\ pc[r] = "idle"
    /\ ~Uploads[u].present
    /\ upload' = [upload EXCEPT ![r] = u]
    /\ Send(r, Json(400))
    /\ failedAt' = [failedAt EXCEPT ![r] = "nofile"]
    /\ pc' = [pc EXCEPT ![r] = "done"]
    /\ UNCHANGED <<variant, moduleMissing, clock, fsFault, filename, work,
                   wrote, files, log, compileFail>>
    /\ UNCHANGED cvars

Accepted(u) ==
    /\ Uploads[u].present
    /\ HasFileFilter(variant) => fileFilter(Uploads[u])
    /\ Uploads[u].size <= FileSizeLimit

\* "mind": const filename = Date.now()
StartMind(r, u) ==
    /\ pc[r] = "idle"
    /\ variant = "mind"
    /\ Accepted(u)
    /\ upload' = [upload EXCEPT ![r] = u]
    /\ filename' = [filename EXCEPT ![r] = <<clock>>]
    /\ pc' = [pc EXCEPT ![r] = "resize"]
    /\ UNCHANGED <<variant, moduleMissing, clock, fsFault, work, responses,
                   wrote, files, log, compileFail, failedAt>>
    /\ UNCHANGED cvars

\* "raw", "border": const filename = Date.now() + '-' + Math.round(Math.random() * 1E9)
StartMemory(r, u, n) ==
    /\ pc[r] = "idle"
    /\ variant \in {"raw", "border"}
    /\ Accepted(u)
    /\ upload' = [upload EXCEPT ![r] = u]
    /\ filename' = [filename EXCEPT ![r] = uniqueName(clock, n)]
    /\ pc' = [pc EXCEPT ![r] = "resize"]
    /\ UNCHANGED <<variant, moduleMissing, clock, fsFault, work, responses,
                   wrote, files, log, compileFail, failedAt>>
    /\ UNCHANGED cvars

\* "disk": multer.diskStorage names the file uniqueName + extname and stores
\* it under ./uploads/; filename = path.parse(req.file.filename).name
StartDisk(r, u, n) ==
    /\ pc[r] = "idle"
    /\ variant = "disk"
    /\ Accepted(u)
    /\ ~fsFault
    /\ upload' = [upload EXCEPT ![r] = u]
    /\ filename' = [filename EXCEPT ![r] = uniqueName(clock, n)]
    /\ WriteFile(r, inputPath(uniqueName(clock, n), Uploads[u].ext), UploadFile(Uploads[u]))
    /\ pc' = [pc EXCEPT ![r] = "resize"]
    /\ UNCHANGED <<variant, moduleMissing, clock, fsFault, work, responses,
                   log, compileFail, failedAt>>
    /\ UNCHANGED cvars

(***************************************************************************)
(* Resampler: sharp(input).resize(size, size, { fit }).jpeg().toBuffer()   *)
(***************************************************************************)
ReadImage(path) == IF path \in DOMAIN files THEN files[path].img ELSE NoRaster

\* what sharp decodes: req.file.buffer, or in "disk" the file at req.file.path
SourceImage(r) ==
    IF variant = "disk" THEN ReadImage(inputPath(filename[r], U(r).ext))
    ELSE IF U(r).decodable THEN Decode(U(r)) ELSE NoRaster

Resampled(v, src) ==
    Resize(src, WorkingSize(v), WorkingSize(v), FitMode(v), "lanczos3", WithoutEnlargement(v))

\* the output file is created before the input turns out to be undecodable
ResizeFailsLeavesTarget(r) ==
    /\ pc[r] = "resize"
    /\ \/ SourceImage(r).w = 0
       \/ variant = "disk" /\ fsFault
    /\ HandlerCatch(r, {}, IF SourceImage(r).w = 0 THEN "decode" ELSE "optimize")
    /\ WriteFile(r, targetPath(variant, filename[r]), JpegFile(NoRaster))
    /\ UNCHANGED <<variant, moduleMissing, clock, fsFault, upload, filename, work,
                   compileFail>>
    /\ UNCHANGED cvars

ResizeFails(r) ==
    /\ pc[r] = "resize"
    /\ \/ SourceImage(r).w = 0
       \/ variant = "disk" /\ fsFault
    /\ HandlerCatch(r, {}, IF SourceImage(r).w = 0 THEN "decode" ELSE "optimize")
    /\ UNCHANGED <<variant, moduleMissing, clock, fsFault, upload, filename, work,
                   wrote, files, compileFail>>
    /\ UNCHANGED cvars

ResizeStep(r) ==
    /\ pc[r] = "resize"
    /\ SourceImage(r).w > 0
    /\ variant = "disk" => ~fsFault
    /\ work' = [work EXCEPT ![r] = Resampled(variant, SourceImage(r))]
    /\ IF variant = "disk"
       THEN WriteFile(r, optimizedPath(filename[r]), JpegFile(work'[r]))
       ELSE UNCHANGED <<wrote, files>>
    /\ pc' = [pc EXCEPT ![r] = IF variant = "raw" THEN "patt" ELSE "target"]
    /\ UNCHANGED <<variant, moduleMissing, clock, fsFault, upload, filename,
                   responses, log, compileFail, failedAt>>
    /\ UNCHANGED cvars

(***************************************************************************)
(* "mind": target .jpg, then compileMindARTarget with its fallback.        *)
(***************************************************************************)
WriteTargetMind(r) ==
    /\ pc[r] = "target"
    /\ variant = "mind"
    /\ ~fsFault
    /\ WriteFile(r, targetPath(variant, filename[r]), JpegFile(work[r]))
    /\ pc' = [pc EXCEPT ![r] = "compile"]
    /\ UNCHANGED <<variant, moduleMissing, clock, fsFault, upload, filename, work,
                   responses, log, compileFail, failedAt>>
    /\ UNCHANGED cvars

\* a write (or unlink) awaited directly by the handler rejects
WriteFails(r) ==
    /\ \/ pc[r] = "target"
       \/ pc[r] = "unlink"
       \/ pc[r] = "patt" /\ variant = "disk"
    /\ fsFault
    /\ HandlerCatch(r, {}, pc[r])
    /\ UNCHANGED <<variant, moduleMissing, clock, fsFault, upload, filename, work,
                   wrote, files, compileFail>>
    /\ UNCHANGED cvars

\* the steps of the try block of compileMindARTarget that can throw
CompileSteps == {"module", "load", "compile", "export", "write"}

\* the try block runs to its end: the compiled data is written
CompileOk(r) ==
    /\ pc[r] = "compile"
    /\ ~moduleMissing
    /\ ~fsFault
    /\ WriteFile(r, compiledPath(filename[r]), MindFile(work[r]))
    /\ Success(r)
    /\ UNCHANGED <<variant, moduleMissing, clock, fsFault, upload, filename, work,
                   log, compileFail, failedAt>>
    /\ UNCHANGED cvars

\* a step throws: the catch block logs and starts writing the dummy file
CompileFails(r, step) ==
    /\ pc[r] = "compile"
    /\ step \in CompileSteps
    /\ moduleMissing <=> step = "module"
    /\ step = "write" <=> (fsFault /\ ~moduleMissing)
    /\ compileFail' = [compileFail EXCEPT ![r] = step]
    /\ Logged(r, "compile")
    /\ pc' = [pc EXCEPT ![r] = "fallback"]
    /\ UNCHANGED <<variant, moduleMissing, clock, fsFault, upload, filename, work,
                   responses, wrote, files, failedAt>>
    /\ UNCHANGED cvars

\* await fs.writeFile(outputPath, dummyData) resolves: the handler goes on
FallbackWrite(r) ==
    /\ pc[r] = "fallback"
    /\ ~fsFault
    /\ WriteFile(r, compiledPath(filename[r]), DummyFile)
    /\ Success(r)
    /\ UNCHANGED <<variant, moduleMissing, clock, fsFault, upload, filename, work,
                   log, compileFail, failedAt>>
    /\ UNCHANGED cvars

\* it rejects inside the catch block: the error reaches the handler's catch
FallbackFails(r) ==
    /\ pc[r] = "fallback"
    /\ fsFault
    /\ HandlerCatch(r, {}, "fallback")
    /\ UNCHANGED <<variant, moduleMissing, clock, fsFault, upload, filename, work,
                   wrote, files, compileFail>>
    /\ UNCHANGED cvars

(***************************************************************************)
(* "raw": generateRealPattFile, then the target .jpg.                      *)
(***************************************************************************)
\* .jpeg({ quality }) of the working buffer drops the alpha band and keeps a
\* greyscale image single-band: decoding it again reports 1 or 3 channels
JpegChannels(channels) == IF channels >= 3 THEN 3 ELSE 1

\* { data, info } of sharp(img).resize(16, 16, { kernel, fit: 'fill' }).raw()
Grid(img, kernel, channels) ==
    RawData(Resize(img, GridSize, GridSize, "fill", kernel, FALSE), channels)

generateRealPattFile(r) ==
    /\ pc[r] = "patt"
    /\ variant = "raw"
    /\ LET info == [channels |-> JpegChannels(U(r).channels)]
           data == Grid(work[r], "nearest", info.channels)
       IN IF patternThrows(data, info.channels) \/ fsFault
          THEN /\ HandlerCatch(r, {"patt"}, "patt")
               /\ UNCHANGED <<wrote, files>>
          ELSE /\ WriteFile(r, markerPath(variant, filename[r]),
                            PattFile(pattern(data, info.channels)))
               /\ pc' = [pc EXCEPT ![r] = "target"]
               /\ UNCHANGED <<responses, log, failedAt>>
    /\ UNCHANGED <<variant, moduleMissing, clock, fsFault, upload, filename, work,
                   compileFail>>
    /\ UNCHANGED cvars

WriteTargetRaw(r) ==
    /\ pc[r] = "target"
    /\ variant = "raw"
    /\ ~fsFault
    /\ WriteFile(r, targetPath(variant, filename[r]), JpegFile(work[r]))
    /\ Success(r)
    /\ UNCHANGED <<variant, moduleMissing, clock, fsFault, upload, filename, work,
                   log, compileFail, failedAt>>
    /\ UNCHANGED cvars

(***************************************************************************)
(* "border", "disk": createTargetImage, then generatePattFile.             *)
(***************************************************************************)
\* the image createTargetImage and generatePattFile are given: the buffer,
\* or in "disk" the file at optimizedPath
Optimized(r) ==
    IF variant = "disk" THEN ReadImage(optimizedPath(filename[r])) ELSE work[r]

\* resizedImage of createTargetImage, composited at (borderSize, borderSize)
Inset(img) == Resize(img, ImageSize, ImageSize, "cover", "lanczos3", FALSE)

CanvasSize == 512
BorderSize == 50
RectOffset == 40
RectSize == 432
Black == 0
White == 255

\* svgBorder: a black 512 x 512 rect under a white rect of 432 at (40, 40)
svgBorder(x, y) ==
    IF /\ x \in RectOffset..(RectOffset + RectSize - 1)
       /\ y \in RectOffset..(RectOffset + RectSize - 1)
    THEN White ELSE Black

\* the pixel of the composited canvas: white background, svgBorder at (0, 0),
\* then resizedImage at (borderSize, borderSize)
CanvasPixel(inset, x, y, c) ==
    IF /\ x \in BorderSize..(BorderSize + inset.w - 1)
       /\ y \in BorderSize..(BorderSize + inset.h - 1)
    THEN Pixel(inset, x - BorderSize, y - BorderSize, c)
    ELSE svgBorder(x, y)

createTargetImage(r) ==
    /\ pc[r] = "target"
    /\ variant \in {"border", "disk"}
    /\ ~fsFault
    /\ WriteFile(r, targetPath(variant, filename[r]), PngFile(Inset(Optimized(r))))
    /\ pc' = [pc EXCEPT ![r] = "patt"]
    /\ UNCHANGED <<variant, moduleMissing, clock, fsFault, upload, filename, work,
                   responses, log, compileFail, failedAt>>
    /\ UNCHANGED cvars

\* "border": resize(16, 16, { fit: 'fill' }) leaves sharp's default kernel
generatePattFile(r) ==
    /\ pc[r] = "patt"
    /\ variant = "border"
    /\ LET info == [channels |-> JpegChannels(U(r).channels)]
           data == Grid(work[r], "lanczos3", info.channels)
       IN IF patternThrows(data, info.channels) \/ fsFault
          THEN /\ HandlerCatch(r, {}, "patt")
               /\ UNCHANGED <<wrote, files>>
          ELSE /\ WriteFile(r, markerPath(variant, filename[r]),
                            PattFile(pattern(data, info.channels)))
               /\ Success(r)
               /\ UNCHANGED <<log, failedAt>>
    /\ UNCHANGED <<variant, moduleMissing, clock, fsFault, upload, filename, work,
                   compileFail>>
    /\ UNCHANGED cvars

\* "disk": generatePattFile writes generateSimplePattern()
generatePattFileDisk(r, n) ==
    /\ pc[r] = "patt"
    /\ variant = "disk"
    /\ ~fsFault
    /\ WriteFile(r, markerPath(variant, filename[r]), PattFile(generateSimplePattern(n)))
    /\ pc' = [pc EXCEPT ![r] = "unlink"]
    /\ UNCHANGED <<variant, moduleMissing, clock, fsFault, upload, filename, work,
                   responses, log, compileFail, failedAt>>
    /\ UNCHANGED cvars

\* await fs.unlink(inputPath), then the success response
Unlink(r) ==
    /\ pc[r] = "unlink"
    /\ ~fsFault
    /\ LET p == inputPath(filename[r], U(r).ext)
       IN IF p \in DOMAIN files
          THEN /\ files' = [q \in DOMAIN files \ {p} |-> files[q]]
               /\ Success(r)
               /\ UNCHANGED <<log, failedAt>>
          ELSE /\ HandlerCatch(r, {}, "unlink")
               /\ UNCHANGED files
    /\ UNCHANGED <<variant, moduleMissing, clock, fsFault, upload, filename, work,
                   wrote, compileFail>>
    /\ UNCHANGED cvars

(***************************************************************************)
(* Specification.                                                          *)
(***************************************************************************)
\* the requests after the first carry the bytes of the first again
Offered(r, u) == r = 1 \/ (pc[1] # "idle" /\ u = upload[1])

Serve(R) ==
    \/ Tick
    \/ FsFail
    \/ \E r \in R, u \in UploadIds : Offered(r, u) /\ UploadRejected(r, u)
    \/ \E r \in R, u \in UploadIds : Offered(r, u) /\ NoFile(r, u)
    \/ \E r \in R, u \in UploadIds : Offered(r, u) /\ StartMind(r, u)
    \/ \E r \in R, u \in UploadIds, n \in RandomValues : Offered(r, u) /\ StartMemory(r, u, n)
    \/ \E r \in R, u \in UploadIds, n \in RandomValues : Offered(r, u) /\ StartDisk(r, u, n)
    \/ \E r \in R : ResizeFails(r)
    \/ \E r \in R : ResizeStep(r)
    \/ \E r \in R : WriteTargetMind(r)
    \/ \E r \in R : WriteFails(r)
    \/ \E r \in R : CompileOk(r)
    \/ \E r \in R, step \in CompileSteps : CompileFails(r, step)
    \/ \E r \in R : FallbackWrite(r)
    \/ \E r \in R : FallbackFails(r)
    \/ \E r \in R : generateRealPattFile(r)
    \/ \E r \in R : WriteTargetRaw(r)
    \/ \E r \in R : createTargetImage(r)
    \/ \E r \in R : generatePattFile(r)
    \/ \E r \in R, n \in RandomValues : generatePattFileDisk(r, n)
    \/ \E r \in R : Unlink(r)

\* one deployment serving NumReq requests concurrently
Next == Serve(Reqs)

Spec == Init /\ [][Next]_<<vars, cvars>>

\* one deployment serving a single request
NextOne == Serve({1})

SpecOne == Init /\ [][NextOne]_<<vars, cvars>>

(***************************************************************************)
(* The client: file selection and the startBtn click handler.              *)
(***************************************************************************)
\* the click handler of attempt a is suspended at the await named at
Awaiting(a, at) == attempt = a /\ cpc = at

\* catch (error) of the click handler: alert, back to the upload screen
StartFailed(message) ==
    /\ alerted' = message
    /\ loadingHidden' = TRUE
    /\ uploadHidden' = FALSE
    /\ cpc' = "idle"

\* width and height resizeImage gives the canvas
resizeImage(w, h, maxSize) ==
    IF w > h
    THEN IF w > maxSize THEN [w |-> maxSize, h |-> (h * maxSize) \div w]
                        ELSE [w |-> w, h |-> h]
    ELSE IF h > maxSize THEN [w |-> (w * maxSize) \div h, h |-> maxSize]
                        ELSE [w |-> w, h |-> h]

handleFile(f) ==
    /\ ~uploadHidden
    /\ IF ClientFiles[f].image
       THEN selectedFile' = f /\ UNCHANGED alerted
       ELSE alerted' = "type" /\ UNCHANGED selectedFile
    /\ UNCHANGED <<compiledData, uploadHidden, loadingHidden, arDisplay,
                   loadingProgress, cpc, attempt, startImg, resizedImg,
                   compile, compileTimer, onLoaded, sceneTimer, starting,
                   hasLoaded, mindarRunning, listeners, status, handled,
                   libMissing, systemMissing>>
    /\ UNCHANGED vars

changeBtnClick ==
    /\ ~uploadHidden
    /\ selectedFile # Null
    /\ selectedFile' = Null
    /\ UNCHANGED <<compiledData, uploadHidden, loadingHidden, arDisplay,
                   loadingProgress, alerted, cpc, attempt, startImg, resizedImg,
                   compile, compileTimer, onLoaded, sceneTimer, starting,
                   hasLoaded, mindarRunning, listeners, status, handled,
                   libMissing, systemMissing>>
    /\ UNCHANGED vars

\* startBtn click, up to the first await
startBtnClick ==
    /\ ~uploadHidden
    /\ attempt < MaxAttempts
    /\ IF selectedFile = Null
       THEN /\ alerted' = "select"
            /\ UNCHANGED <<uploadHidden, loadingHidden, loadingProgress, cpc, attempt>>
       ELSE /\ uploadHidden' = TRUE
            /\ loadingHidden' = FALSE
            /\ loadingProgress' = 0
            /\ cpc' = "loadImage"
            /\ attempt' = attempt + 1
            /\ UNCHANGED alerted
    /\ UNCHANGED <<selectedFile, compiledData, arDisplay, startImg, resizedImg,
                   compile, compileTimer, onLoaded, sceneTimer, starting,
                   hasLoaded, mindarRunning, listeners, status, handled,
                   libMissing, systemMissing>>
    /\ UNCHANGED vars

\* loadImage settles: the size checks, then resizeImage or compileImageTarget
imageLoaded ==
    /\ cpc = "loadImage"
    /\ LET f == ClientFiles[selectedFile]
           large == f.w > 2000 \/ f.h > 2000
       IN IF ~f.loads
          THEN /\ StartFailed("load")
               /\ UNCHANGED <<startImg, resizedImg, loadingProgress, compile, compileTimer>>
          ELSE /\ startImg' = [w |-> f.w, h |-> f.h]
               /\ IF f.w < 300 \/ f.h < 300
                  THEN /\ StartFailed("small")
                       /\ UNCHANGED <<resizedImg, loadingProgress, compile, compileTimer>>
                  ELSE IF large
                  THEN /\ resizedImg' = resizeImage(f.w, f.h, 1024)
                       /\ cpc' = "resizeImage"
                       /\ UNCHANGED <<alerted, loadingHidden, uploadHidden,
                                      loadingProgress, compile, compileTimer>>
                  ELSE /\ loadingProgress' = 25
                       /\ cpc' = "compile"
                       /\ compile' = [compile EXCEPT ![attempt] = "queued"]
                       /\ compileTimer' = [compileTimer EXCEPT ![attempt] = TRUE]
                       /\ UNCHANGED <<alerted, loadingHidden, uploadHidden, resizedImg>>
    /\ UNCHANGED <<selectedFile, compiledData, arDisplay, attempt,
                   onLoaded, sceneTimer, starting,
                   hasLoaded, mindarRunning, listeners, status, handled,
                   libMissing, systemMissing>>
    /\ UNCHANGED vars

\* resizeImage resolves: img = ... assigns to the const img and throws
resizeLoaded ==
    /\ cpc = "resizeImage"
    /\ StartFailed("const")
    /\ UNCHANGED <<selectedFile, compiledData, arDisplay,
                   loadingProgress, attempt, startImg, resizedImg,
                   compile, compileTimer, onLoaded, sceneTimer, starting,
                   hasLoaded, mindarRunning, listeners, status, handled,
                   libMissing, systemMissing>>
    /\ UNCHANGED vars

(***************************************************************************)
(* compileImageTarget: a 30 s timer and, 100 ms later, the compile.        *)
(***************************************************************************)
\* byteLength of the compiled data
DataSizes == {50, 5000}

\* Math.round(25 + progress * 50), progress in percent
ProgressPercent(progress) == 25 + RoundDiv(progress * 50, 100)

Progresses == {50}

\* the synchronous part of initializeARScene after the compile resolved:
\* the 20 s timer, then onLoaded() at once or as a 'loaded' listener
initializeARScene(a) ==
    IF hasLoaded
    THEN IF systemMissing
         THEN /\ StartFailed("nosystem")
              /\ UNCHANGED <<onLoaded, sceneTimer, starting>>
         ELSE /\ starting' = [starting EXCEPT ![a] = TRUE]
              /\ cpc' = "scene"
              /\ UNCHANGED <<onLoaded, sceneTimer, alerted, loadingHidden, uploadHidden>>
    ELSE /\ onLoaded' = [onLoaded EXCEPT ![a] = TRUE]
         /\ sceneTimer' = [sceneTimer EXCEPT ![a] = TRUE]
         /\ cpc' = "scene"
         /\ UNCHANGED <<starting, alerted, loadingHidden, uploadHidden>>

\* the 100 ms timer: the library check, then compileImageTargets starts
compileStart(a) ==
    /\ compile[a] = "queued"
    /\ IF libMissing
       THEN /\ compile' = [compile EXCEPT ![a] = "done"]
            /\ compileTimer' = [compileTimer EXCEPT ![a] = FALSE]
            /\ IF Awaiting(a, "compile")
               THEN StartFailed("nolib")
               ELSE UNCHANGED <<alerted, loadingHidden, uploadHidden, cpc>>
       ELSE /\ compile' = [compile EXCEPT ![a] = "running"]
            /\ UNCHANGED <<compileTimer, alerted, loadingHidden, uploadHidden, cpc>>
    /\ UNCHANGED <<selectedFile, compiledData, arDisplay,
                   loadingProgress, attempt, startImg, resizedImg,
                   onLoaded, sceneTimer, starting,
                   hasLoaded, mindarRunning, listeners, status, handled,
                   libMissing, systemMissing>>
    /\ UNCHANGED vars

\* the compiler reports progress
progressCallback(a, progress) ==
    /\ compile[a] = "running"
    /\ loadingProgress' = ProgressPercent(progress)
    /\ UNCHANGED <<selectedFile, compiledData, uploadHidden, loadingHidden, arDisplay,
                   alerted, cpc, attempt, startImg, resizedImg,
                   compile, compileTimer, onLoaded, sceneTimer, starting,
                   hasLoaded, mindarRunning, listeners, status, handled,
                   libMissing, systemMissing>>
    /\ UNCHANGED vars

\* the 30 s timer fires while the compile runs
compileTimeout(a) ==
    /\ compileTimer[a]
    /\ compile[a] = "running"
    /\ compileTimer' = [compileTimer EXCEPT ![a] = FALSE]
    /\ IF Awaiting(a, "compile")
       THEN StartFailed("compileTimeout")
       ELSE UNCHANGED <<alerted, loadingHidden, uploadHidden, cpc>>
    /\ UNCHANGED <<selectedFile, compiledData, arDisplay,
                   loadingProgress, attempt, startImg, resizedImg,
                   compile, onLoaded, sceneTimer, starting,
                   hasLoaded, mindarRunning, listeners, status, handled,
                   libMissing, systemMissing>>
    /\ UNCHANGED vars

\* compileImageTargets throws
compileThrows(a) ==
    /\ compile[a] = "running"
    /\ compile' = [compile EXCEPT ![a] = "done"]
    /\ compileTimer' = [compileTimer EXCEPT ![a] = FALSE]
    /\ IF Awaiting(a, "compile")
       THEN StartFailed("compile")
       ELSE UNCHANGED <<alerted, loadingHidden, uploadHidden, cpc>>
    /\ UNCHANGED <<selectedFile, compiledData, arDisplay,
                   loadingProgress, attempt, startImg, resizedImg,
                   onLoaded, sceneTimer, starting,
                   hasLoaded, mindarRunning, listeners, status, handled,
                   libMissing, systemMissing>>
    /\ UNCHANGED vars

\* compileImageTargets returns data; when the handler still awaits it the
\* handler goes on to initializeARScene
compileDone(a, size) ==
    /\ compile[a] = "running"
    /\ compile' = [compile EXCEPT ![a] = "done"]
    /\ compileTimer' = [compileTimer EXCEPT ![a] = FALSE]
    /\ IF ~Awaiting(a, "compile")
       THEN UNCHANGED <<alerted, loadingHidden, uploadHidden, cpc, compiledData,
                        loadingProgress, onLoaded, sceneTimer, starting>>
       ELSE IF size < 100
       THEN /\ StartFailed("tiny")
            /\ UNCHANGED <<compiledData, loadingProgress, onLoaded, sceneTimer, starting>>
       ELSE /\ compiledData' = size
            /\ loadingProgress' = 75
            /\ initializeARScene(a)
    /\ UNCHANGED <<selectedFile, arDisplay, attempt, startImg, resizedImg,
                   hasLoaded, mindarRunning, listeners, status, handled,
                   libMissing, systemMissing>>
    /\ UNCHANGED vars

(***************************************************************************)
(* initializeARScene: the 'loaded' listeners, the 20 s timers, start().    *)
(***************************************************************************)
\* the scene fires 'loaded': every registered onLoaded runs (once: true),
\* clears its timer and calls mindarSystem.start(), or rejects
sceneLoaded ==
    /\ ~hasLoaded
    /\ hasLoaded' = TRUE
    /\ onLoaded' = [a \in Attempts |-> FALSE]
    /\ sceneTimer' = [a \in Attempts |-> sceneTimer[a] /\ ~onLoaded[a]]
    /\ IF systemMissing
       THEN /\ UNCHANGED starting
            /\ IF cpc = "scene" /\ attempt \in Attempts /\ onLoaded[attempt]
               THEN StartFailed("nosystem")
               ELSE UNCHANGED <<alerted, loadingHidden, uploadHidden, cpc>>
       ELSE /\ starting' = [a \in Attempts |-> starting[a] \/ onLoaded[a]]
            /\ UNCHANGED <<alerted, loadingHidden, uploadHidden, cpc>>
    /\ UNCHANGED <<selectedFile, compiledData, arDisplay,
                   loadingProgress, attempt, startImg, resizedImg,
                   compile, compileTimer,
                   mindarRunning, listeners, status, handled,
                   libMissing, systemMissing>>
    /\ UNCHANGED vars

\* the 20 s timer fires before 'loaded': reject; the listener stays
sceneTimeout(a) ==
    /\ sceneTimer[a]
    /\ sceneTimer' = [sceneTimer EXCEPT ![a] = FALSE]
    /\ IF Awaiting(a, "scene")
       THEN StartFailed("sceneTimeout")
       ELSE UNCHANGED <<alerted, loadingHidden, uploadHidden, cpc>>
    /\ UNCHANGED <<selectedFile, compiledData, arDisplay,
                   loadingProgress, attempt, startImg, resizedImg,
                   compile, compileTimer, onLoaded, starting,
                   hasLoaded, mindarRunning, listeners, status, handled,
                   libMissing, systemMissing>>
    /\ UNCHANGED vars

\* targetEntity / arScene .addEventListener for the four events
setupEventListeners == [e \in Events |-> listeners[e] + 1]

\* await mindarSystem.start() settles; on success setupEventListeners() and
\* resolve(), and the handler, if it still awaits, shows the AR screen
startSettled(a, ok) ==
    /\ starting[a]
    /\ starting' = [starting EXCEPT ![a] = FALSE]
    /\ IF ok
       THEN /\ mindarRunning' = TRUE
            /\ listeners' = setupEventListeners
            /\ IF Awaiting(a, "scene")
               THEN /\ loadingProgress' = 100
                    /\ loadingHidden' = TRUE
                    /\ arDisplay' = TRUE
                    /\ cpc' = "idle"
                    /\ UNCHANGED <<alerted, uploadHidden>>
               ELSE UNCHANGED <<loadingProgress, loadingHidden, arDisplay, cpc,
                                alerted, uploadHidden>>
       ELSE /\ UNCHANGED <<mindarRunning, listeners, loadingProgress, arDisplay>>
            /\ IF Awaiting(a, "scene")
               THEN StartFailed("start")
               ELSE UNCHANGED <<alerted, loadingHidden, uploadHidden, cpc>>
    /\ UNCHANGED <<selectedFile, compiledData, attempt, startImg, resizedImg,
                   compile, compileTimer, onLoaded, sceneTimer,
                   hasLoaded, status, handled,
                   libMissing, systemMissing>>
    /\ UNCHANGED vars

\* resetBtn click (the button is in the AR container)
resetBtnClick ==
    /\ arDisplay
    /\ mindarRunning' = FALSE
    /\ arDisplay' = FALSE
    /\ uploadHidden' = FALSE
    /\ selectedFile' = Null
    /\ compiledData' = Null
    /\ UNCHANGED <<loadingHidden, loadingProgress, alerted, cpc, attempt,
                   startImg, resizedImg,
                   compile, compileTimer, onLoaded, sceneTimer, starting,
                   hasLoaded, listeners, status, handled,
                   libMissing, systemMissing>>
    /\ UNCHANGED vars

\* the running MindAR system emits e: every registered handler runs
emit(e) ==
    /\ mindarRunning
    /\ handled' = listeners[e]
    /\ status' = IF listeners[e] > 0 /\ e # "arError" THEN e ELSE status
    /\ UNCHANGED <<selectedFile, compiledData, uploadHidden, loadingHidden, arDisplay,
                   loadingProgress, alerted, cpc, attempt, startImg, resizedImg,
                   compile, compileTimer, onLoaded, sceneTimer, starting,
                   hasLoaded, mindarRunning, listeners,
                   libMissing, systemMissing>>
    /\ UNCHANGED vars

ClientStep ==
    \/ \E f \in ClientFileIds : handleFile(f)
    \/ changeBtnClick
    \/ startBtnClick
    \/ imageLoaded
    \/ resizeLoaded
    \/ \E a \in Attempts : compileStart(a)
    \/ \E a \in Attempts, progress \in Progresses : progressCallback(a, progress)
    \/ \E a \in Attempts : compileTimeout(a)
    \/ \E a \in Attempts : compileThrows(a)
    \/ \E a \in Attempts, size \in DataSizes : compileDone(a, size)
    \/ sceneLoaded
    \/ \E a \in Attempts : sceneTimeout(a)
    \/ \E a \in Attempts, ok \in BOOLEAN : startSettled(a, ok)
    \/ resetBtnClick
    \/ \E e \in Events : emit(e)

\* one visit of the page; no request reaches the server
InitClient ==
    /\ ServerInit
    /\ variant = "mind" /\ ~moduleMissing
    /\ ClientInit

NextClient == ClientStep

SpecClient == InitClient /\ [][NextClient]_<<vars, cvars>>

(***************************************************************************)
(* Reading a pattern text back.                                            *)
(***************************************************************************)
Newlines(t) == {i \in 1..Len(t) : t[i] = "\n"}

\* the lines of t, each ended by its newline
Lines(t) ==
    LET nl == Newlines(t)
        at == [k \in 0..Cardinality(nl) |->
                 IF k = 0 THEN 0
                 ELSE CHOOSE i \in nl : Cardinality({j \in nl : j < i}) = k - 1]
    IN [k \in 1..Cardinality(nl) |-> SubSeq(t, at[k - 1] + 1, at[k] - 1)]

\* every character of t belongs to a line
Terminated(t) == Len(t) > 0 /\ t[Len(t)] = "\n"

IsDigit(ch) == \E d \in 1..10 : Digits[d] = ch

DigitValue(ch) == (CHOOSE d \in 1..10 : Digits[d] = ch) - 1

\* f is a number right-aligned with spaces in FieldWidth characters
IsField(f) ==
    /\ Len(f) = FieldWidth
    /\ \E k \in 0..(FieldWidth - 1) :
          /\ \A i \in 1..k : f[i] = " "
          /\ \A i \in (k + 1)..FieldWidth : IsDigit(f[i])

RECURSIVE FieldValue(_)
FieldValue(f) ==
    IF Len(f) = 0 THEN 0
    ELSE IF f[Len(f)] = " " THEN 0
    ELSE 10 * FieldValue(SubSeq(f, 1, Len(f) - 1)) + DigitValue(f[Len(f)])

\* the k-th field of a row (k from 1) and the separator after it
FieldOf(row, k) == SubSeq(row, (k - 1) * (FieldWidth + 1) + 1, k * (FieldWidth + 1) - 1)

IsRow(row) ==
    /\ Len(row) = GridSize * (FieldWidth + 1) - 1
    /\ \A k \in 1..GridSize : IsField(FieldOf(row, k))
    /\ \A k \in 1..(GridSize - 1) : row[k * (FieldWidth + 1)] = " "

\* 3 blocks of 16 rows, a blank line after the first and the second block only
WellFormedPattern(t) ==
    LET lines == Lines(t)
        blank == {GridSize + 1, 2 * GridSize + 2}
    IN /\ Terminated(t)
       /\ Len(lines) = NumChannels * GridSize + 2
       /\ \A k \in 1..Len(lines) :
             IF k \in blank THEN Len(lines[k]) = 0 ELSE IsRow(lines[k])

\* the line of block c, row y (both from 0)
LineOf(c, y) == c * (GridSize + 1) + y + 1

\* the values parsed from a well-formed text: block c, row y, column x
ParsedGrid(t) ==
    LET lines == Lines(t)
    IN [c \in 0..(NumChannels - 1), y \in 0..(GridSize - 1), x \in 0..(GridSize - 1) |->
           FieldValue(FieldOf(lines[LineOf(c, y)], x + 1))]

PattPaths == {p \in DOMAIN files : files[p].kind = "patt"}

\* C1: every .patt text written (by generateRealPattFile, generatePattFile or
\* generateSimplePattern) has exactly 48 non-blank rows of 16 fields of width
\* 3, and exactly 2 blank lines, one after row 16 and one after row 32, none
\* after the last block.
C1_PatternFormat == \A p \in PattPaths : WellFormedPattern(files[p].text)

\* a request has ended with success and its pattern file is there
C1_Witness ==
    /\ PattPaths # {}
    /\ variant \in {"raw", "disk"}
    /\ \E r \in Reqs : pc[r] = "done" /\ responses[r] = <<Json(200)>>

\* the pattern file request r wrote, if any
PattWrites(r) == {i \in 1..Len(wrote[r]) : wrote[r][i].kind = "patt"}

PattText(r) == files[wrote[r][CHOOSE i \in PattWrites(r) : TRUE].path].text

\* request r carried an image that multer accepts and sharp decodes
ValidImage(r) == pc[r] # "idle" /\ Accepted(upload[r]) /\ U(r).decodable

PixelVariants == {"raw", "border"}

\* C2: for every valid image, whatever info.channels (1, 2, 3 or 4) the
\* 16x16 raw buffer has, pattern generation completes and the pattern parses
\* back to 3 x 16 x 16 = 768 integers, each in 0..255.
C2_RoundTrip ==
    \A r \in Reqs :
        (variant \in PixelVariants /\ pc[r] = "done" /\ ValidImage(r) /\ ~fsFault)
        => /\ PattWrites(r) # {}
           /\ WellFormedPattern(PattText(r))
           /\ \A v \in DOMAIN ParsedGrid(PattText(r)) :
                 ParsedGrid(PattText(r))[v] \in 0..255

\* sharp(img).resize(16, 16, { kernel: nearest, fit: 'fill' })
Nearest16(img) == Resize(img, GridSize, GridSize, "fill", "nearest", FALSE)

\* C3: in the variants that write a pixel-based pattern, the field of block c
\* (R, G, B in that order), row y, column x is the channel-c byte of pixel
\* (x, y) of the 16x16 nearest-neighbour downsample of the working image.
C3_DirectSample ==
    \A r \in Reqs :
        (variant \in PixelVariants /\ PattWrites(r) # {})
        => LET grid == ParsedGrid(PattText(r))
               near == Nearest16(work[r])
           IN \A c \in 0..(NumChannels - 1), y \in 0..(GridSize - 1), x \in 0..(GridSize - 1) :
                 grid[c, y, x] = Pixel(near, x, y, c)

\* the tracking artifact request r wrote last (.patt, .mind or the dummy)
TrackingWrites(r) == {i \in 1..Len(wrote[r]) : wrote[r][i].kind \in {"patt", "mind", "dummy"}}

TrackingPath(r) == wrote[r][CHOOSE i \in TrackingWrites(r) : \A j \in TrackingWrites(r) : j <= i].path

Succeeded(r) == pc[r] = "done" /\ responses[r] = <<Json(200)>>

\* C4: two runs of the pipeline on the same input bytes, in the same
\* deployment, write byte-identical pattern artifacts.
C4_Deterministic ==
    \A r1, r2 \in Reqs :
        (/\ r1 # r2
         /\ Succeeded(r1) /\ Succeeded(r2)
         /\ upload[r1] = upload[r2]
         /\ compileFail[r1] = "none" /\ compileFail[r2] = "none"
         /\ TrackingPath(r1) # TrackingPath(r2))
        => files[TrackingPath(r1)] = files[TrackingPath(r2)]

\* C5: in "mind", when a step of the tracking-engine compile fails and nothing
\* else does, the failure is logged, the placeholder is written to the .mind
\* path and the request gets the success response.
C5_Fallback ==
    \A r \in Reqs :
        (/\ variant = "mind"
         /\ pc[r] = "done"
         /\ compileFail[r] # "none"
         /\ fsFault => compileFail[r] = "write")
        => /\ "compile" \in log[r]
           /\ \E i \in 1..Len(wrote[r]) :
                 wrote[r][i] = [path |-> compiledPath(filename[r]), kind |-> "dummy"]
           /\ responses[r] = <<Json(200)>>

\* the output paths request r wrote (not its upload or intermediate copy)
OutputPaths(r) ==
    {wrote[r][i].path : i \in {j \in 1..Len(wrote[r]) : wrote[r][j].path[1] # "./uploads/"}}

\* C6: two requests of one deployment, also within the same millisecond,
\* have different RequestIds and write no output path in common.
C6_DistinctPaths ==
    \A r1, r2 \in Reqs :
        (r1 # r2 /\ filename[r1] # NoName /\ filename[r2] # NoName)
        => /\ filename[r1] # filename[r2]
           /\ OutputPaths(r1) \cap OutputPaths(r2) = {}

\* C7: a request rejected because the upload is missing or because the first
\* decode/resize step throws has written no pattern and no target artifact.
C7_NoPartialArtifacts ==
    \A r \in Reqs :
        (pc[r] = "done" /\ failedAt[r] \in {"nofile", "decode", "optimize"})
        => OutputPaths(r) = {}

\* a corrupt upload was refused at the resize step
C7_Witness ==
    \E r \in Reqs :
        /\ pc[r] = "done"
        /\ failedAt[r] = "decode"
        /\ U(r).present /\ ~U(r).decodable
        /\ responses[r] = <<Json(500)>>

Status(r) == responses[r][Len(responses[r])].status

\* C8: a missing upload, a refusal by the upload filter and a decode failure
\* get a 4xx status; a 5xx status is only for a failure after the decode.
C8_ErrorTaxonomy ==
    \A r \in Reqs :
        pc[r] = "done"
        => /\ failedAt[r] \in {"nofile", "filter", "decode"} => Status(r) \in 400..499
           /\ Status(r) \in 500..599
                 => failedAt[r] \in {"optimize", "target", "patt", "unlink", "fallback"}

\* C9: every request gets exactly one response, and it is JSON.
C9_SingleJsonResponse ==
    \A r \in Reqs :
        /\ Len(responses[r]) <= 1
        /\ pc[r] = "done" => (Len(responses[r]) = 1 /\ responses[r][1].type = "json")

HasWorkingImage(r) == work[r] # NoRaster

C11_NeverUpsampled ==
    \A r \in Reqs :
        (FitMode(variant) = "inside" /\ HasWorkingImage(r))
        => work[r].w <= U(r).w /\ work[r].h <= U(r).h

\* the smallest side the client accepts for a target image
MinUsableSize == 300

TooSmall(u) == u.present /\ u.decodable /\ (u.w < MinUsableSize \/ u.h < MinUsableSize)

\* C12: a request whose image is narrower or lower than the minimum usable
\* dimension writes no pattern and no target artifact and is not answered
\* with the success response.
C12_SmallRejected ==
    \A r \in Reqs :
        (pc[r] # "idle" /\ TooSmall(U(r)))
        => OutputPaths(r) = {} /\ ~Succeeded(r)

PngPaths == {p \in DOMAIN files : files[p].kind = "png"}

\* canvas coordinates on both sides of each boundary of the frame
Probes == {0, RectOffset - 1, RectOffset, BorderSize - 1, BorderSize,
           CanvasSize - BorderSize - 1, CanvasSize - BorderSize,
           CanvasSize - RectOffset - 1, CanvasSize - RectOffset, CanvasSize - 1}

NearEdge(x, y) ==
    \/ x < BorderSize \/ y < BorderSize
    \/ x >= CanvasSize - BorderSize \/ y >= CanvasSize - BorderSize

\* C13: in every bordered target the image is canvasSize - 2*borderSize wide
\* and high, every canvas pixel closer than borderSize to an edge has the
\* border colour (black), and the pixel at (borderSize, borderSize) is the
\* first pixel of the image.
C13_BorderGeometry ==
    \A p \in PngPaths :
        LET inset == files[p].img
        IN /\ inset.w = CanvasSize - 2 * BorderSize
           /\ inset.h = CanvasSize - 2 * BorderSize
           /\ \A c \in 0..(NumChannels - 1) :
                 /\ CanvasPixel(inset, BorderSize, BorderSize, c) = Pixel(inset, 0, 0, c)
                 /\ \A x, y \in Probes :
                       NearEdge(x, y) => CanvasPixel(inset, x, y, c) = Black

\* C14: in "disk", once a request that stored its upload has completed,
\* neither the uploaded file nor its '-optimized.jpg' copy is left.
C14_NothingPersisted ==
    \A r \in Reqs :
        (variant = "disk" /\ pc[r] = "done" /\ filename[r] # NoName)
        => /\ inputPath(filename[r], U(r).ext) \notin DOMAIN files
           /\ optimizedPath(filename[r]) \notin DOMAIN files

Large(i) == i.w > 2000 \/ i.h > 2000

\* C15: a loaded image wider or higher than 2000 is resized to a longer side
\* of at most 1024 and the attempt does not fail at the resize step.
C15_LargeImageResized ==
    /\ (cpc = "resizeImage" /\ Large(startImg))
          => Max(resizedImg.w, resizedImg.h) <= 1024
    /\ alerted # "const"

\* C16: as long as every start attempt succeeded (nothing was alerted), at
\* most one handler is registered for each of the four events, and one event
\* runs at most one handler.
C16_SingleListener ==
    alerted = "none"
    => /\ \A e \in Events : listeners[e] <= 1
       /\ handled <= 1

\* C17: MindAR never runs while the upload screen is visible, and while the
\* upload screen stays visible nothing starts MindAR, registers listeners or
\* writes the progress display.
C17_NoLateCallback ==
    /\ [](mindarRunning => uploadHidden)
    /\ [][(~uploadHidden /\ ~uploadHidden')
            => /\ mindarRunning' => mindarRunning
               /\ listeners' = listeners
               /\ loadingProgress' = loadingProgress]_<<vars, cvars>>

====
